---- MODULE Spec2Model ----
(***************************************************************************)
(* paperbark: the region-validation engine of src/game.rs (Square, Board,  *)
(* Region, Ruleset, Game) driven through its public operations.            *)
(*                                                                         *)
(* A Region is the set of its squares (HashSet<Square>); the committed     *)
(* list Game.regions is a sequence of (region, data) entries.  The driver  *)
(* owns one candidate Region; a CheckedRegion handle borrows it, so the    *)
(* candidate cannot be mutated while a handle is alive, but a handle does  *)
(* not borrow the Game and may be held across other calls on it.           *)
(***************************************************************************)
EXTENDS Integers, Sequences, FiniteSets, TLC

\* ------------------------------------------------------------------ bounds
\* largest candidate region the driver builds (one more than max_length)
MaxSquares == 3
\* cap on the length of the committed list
MaxRegions == 3
\* cap on the number of CheckedRegion handles alive at once
MaxHandles == 2

\* ------------------------------------------------------- the puzzle (input)
\* A String is the sequence of its chars, each char a TLA+ string; "AE" and
\* "OE" stand for the letters U+00C6 and U+0152, which take two bytes in
\* UTF-8, every other letter here takes one.
utf8_len(c) == IF c \in {"AE", "OE"} THEN 2 ELSE 1

RECURSIVE String_len(_)
\* String::len: the length in bytes
String_len(s) == IF s = <<>> THEN 0 ELSE utf8_len(Head(s)) + String_len(Tail(s))

\* the assertion of Board::new
Board_new_asserts(w, contents) == String_len(contents) % w = 0

\* Board::new: the height comes from the length in bytes, the cells from
\* the chars
Board_new(w, contents) ==
    [width |-> w, height |-> String_len(contents) \div w, board |-> contents]

\* the boards the puzzle data may hold: AB / CD, and the one-row board of
\* the two-byte letters U+00C6 U+0152
BoardData == { <<"A", "B", "C", "D">>, <<"AE", "OE">> }
BoardWidth == 2

\* Ruleset { min_length, max_length, dictionary }
min_length == 2
max_length == 2
dictionary == { <<"A">>, <<"A", "B">>, <<"C", "D">>, <<"B", "D">>,
                <<"A", "D">>, <<"A", "B", "C">>, <<"AE", "OE">> }

\* the caller's labels (D = tui Color in the driver)
Labels == {"Red", "Green"}

\* App::new: the colors of the driver
all_colors == <<"Red", "Green", "Yellow", "Blue", "Magenta", "Cyan">>

VARIABLES
    board,      \* Game.board: the Board [width, height, board]
    regions,    \* Game.regions: Seq of [region, data]
    candidate,  \* the driver's uncommitted Region
    handles,    \* CheckedRegion handles alive: [fresh |-> n, stale |-> m]
    immediate,  \* history: every add_region so far consumed a fresh handle
    ret,        \* the value returned by the call the last step made
    cursor,     \* App.cursor
    colors,     \* App.colors: the colors not handed out yet
    running,    \* App.running
    walk        \* a call of Region::is_contiguous on the candidate: its
                \* position pc, so_far, remaining, the loop bodies run, its result

\* the state of the driver besides its Game and its uncommitted Region
app == <<cursor, colors, running>>

vars == <<board, regions, candidate, handles, immediate, ret, app, walk>>

\* Board::width, Board::height
width == board.width
height == board.height

\* Square { x, y }: the squares a candidate is built from; column x = width
\* and row y = height lie outside the board
Square(x, y) == [x |-> x, y |-> y]
Squares == {Square(x, y) : x \in 0..width, y \in 0..height}

\* ------------------------------------------------------------------ Square
\* mutant: the difference without taking the larger first
delta_signed(a, b) == a - b

delta(a, b) == (IF a > b THEN a ELSE b) - (IF a < b THEN a ELSE b)

\* mutant: diagonal squares count as neighbours
is_neighbour_of_diagonal(self, other) ==
    delta(self.x, other.x) <= 1 /\ delta(self.y, other.y) <= 1 /\ self # other

is_neighbour_of(self, other) ==
    LET is_horizontal == self.y = other.y
        dx == delta(self.x, other.x)
        is_vertical == self.x = other.x
        dy == delta(self.y, other.y)
    IN  (is_horizontal /\ dx = 1) \/ (is_vertical /\ dy = 1)

\* ------------------------------------------------------------------- Board
\* the outcome of an out-of-range index into Board.board
Panic == <<"PANIC">>

\* Board::get: self.board[s.y * self.width + s.x] (0-based index)
get(s) ==
    LET idx == s.y * width + s.x
    IN  IF idx < Len(board.board) THEN board.board[idx + 1] ELSE "PANIC"

\* ------------------------------------------------------------------ Region
\* Region::add_square: HashSet::insert, the set it leaves and the bool it
\* returns (the square was not present)
add_square(region, square) == region \cup {square}

\* mutant: the insertion is always reported as new
add_square_ret_always(region, square) == TRUE

add_square_ret(region, square) == square \notin region

\* Region::remove_square: HashSet::remove, the set it leaves and the bool it
\* returns (the square was present)
remove_square(region, square) == region \ {square}
remove_square_ret(region, square) == square \in region

size(region) == Cardinality(region)

\* the comparator of Region::word: y first, x second
comes_before(a, b) == a.y < b.y \/ (a.y = b.y /\ a.x < b.x)

RECURSIVE sorted(_)
sorted(squares) ==
    IF squares = {} THEN <<>>
    ELSE LET first == CHOOSE a \in squares :
                          \A b \in squares \ {a} : comes_before(a, b)
         IN  <<first>> \o sorted(squares \ {first})

\* Region::word: the board characters in sorted order; one failing get fails
\* the call
word(region) ==
    LET squares == sorted(region)
        chars == [i \in 1..Len(squares) |-> get(squares[i])]
    IN  IF \E i \in 1..Len(chars) : chars[i] = "PANIC" THEN Panic ELSE chars

\* mutant: the rows are not compared
is_in_bounds_x_only(region) ==
    LET is_out_of_bounds == \E s \in region : s.x >= width
    IN  ~is_out_of_bounds

is_in_bounds(region) ==
    LET is_out_of_bounds == \E s \in region : s.x >= width \/ s.y >= height
    IN  ~is_out_of_bounds

\* mutant: a square is taken only when it neighbours every square so far
RECURSIVE contiguous_loop_all(_, _)
contiguous_loop_all(so_far, remaining) ==
    IF remaining = {} THEN {TRUE}
    ELSE LET adjacent == {s1 \in remaining :
                             \A s2 \in so_far : is_neighbour_of(s1, s2)}
         IN  IF adjacent = {} THEN {FALSE}
             ELSE UNION {contiguous_loop_all(so_far \cup {s}, remaining \ {s}) :
                             s \in adjacent}

\* the loop of Region::is_contiguous: the set of values it can return from
\* (so_far, remaining), over every order in which the HashSet may yield
\* an adjacent square
RECURSIVE contiguous_loop(_, _)
contiguous_loop(so_far, remaining) ==
    IF remaining = {} THEN {TRUE}
    ELSE LET adjacent == {s1 \in remaining :
                             \E s2 \in so_far : is_neighbour_of(s1, s2)}
         IN  IF adjacent = {} THEN {FALSE}
             ELSE UNION {contiguous_loop(so_far \cup {s}, remaining \ {s}) :
                             s \in adjacent}

\* Region::is_contiguous: the set of values it can return, over every start
is_contiguous(region) ==
    IF size(region) = 0 THEN {TRUE}
    ELSE UNION {contiguous_loop({start}, region \ {start}) : start \in region}

\* -------------------------------------------------------------------- Game
\* mutant: the columns are counted from 1
all_squares_from_one ==
    {Square(x, y) : x \in 1..(width - 1), y \in 0..(height - 1)}

all_squares == {Square(x, y) : x \in 0..(width - 1), y \in 0..(height - 1)}

used_squares == UNION {regions[i].region : i \in 1..Len(regions)}

\* mutant: the difference is taken the other way round
is_complete_reversed == used_squares \ all_squares = {}

is_complete == all_squares \ used_squares = {}

\* mutant: no committed region is searched
is_overlapping_never(region) == FALSE

\* mutant: only the first committed region is searched
is_overlapping_first(region) ==
    Len(regions) > 0 /\ \E square \in regions[1].region : square \in region

is_overlapping(region) ==
    \E i \in 1..Len(regions) : \E square \in regions[i].region : square \in region

\* Game::check_region: the set of results it can return for the region
check_region(region) ==
    IF size(region) < min_length THEN {"TooShort"}
    ELSE IF size(region) > max_length THEN {"TooLong"}
    ELSE IF ~is_in_bounds(region) THEN {"OutOfBounds"}
    ELSE IF is_overlapping(region) THEN {"Overlapping"}
    ELSE { IF ~contiguous THEN "NotContiguous"
           ELSE IF word(region) = Panic THEN "Panic"
           ELSE IF word(region) \notin dictionary THEN "NotInDictionary"
           ELSE "Ok" : contiguous \in is_contiguous(region) }

\* mutant: the entry is inserted at the front
add_region_front(region, data) == <<[region |-> region, data |-> data]>> \o regions

\* Game::add_region: the committed list after pushing a copy of the region
add_region(region, data) == Append(regions, [region |-> region, data |-> data])

\* mutant: the predicate is negated
position_not_contains(square) ==
    IF \E i \in 1..Len(regions) : square \notin regions[i].region
    THEN CHOOSE i \in 1..Len(regions) :
             /\ square \notin regions[i].region
             /\ \A j \in 1..(i - 1) : square \in regions[j].region
    ELSE 0

\* the index found by remove_region (1-based; 0 when there is none)
position(square) ==
    IF \E i \in 1..Len(regions) : square \in regions[i].region
    THEN CHOOSE i \in 1..Len(regions) :
             /\ square \in regions[i].region
             /\ \A j \in 1..(i - 1) : square \notin regions[j].region
    ELSE 0

\* mutant: the last element is dropped whatever the index
swap_remove_pop(v, index) == [i \in 1..(Len(v) - 1) |-> v[i]]

\* Vec::swap_remove: the last element takes the place of the removed one
swap_remove(v, index) ==
    [i \in 1..(Len(v) - 1) |-> IF i = index THEN v[Len(v)] ELSE v[i]]

\* mutant: the entry returned is the one swap_remove moved
remove_region_ret_last(square) ==
    IF position(square) = 0 THEN {} ELSE {regions[Len(regions)]}

\* Game::remove_region: the returned Option (a set of at most one entry)
remove_region_ret(square) ==
    IF position(square) = 0 THEN {} ELSE {regions[position(square)]}

\* Game::remove_region: the committed list it leaves
remove_region(square) ==
    IF position(square) = 0 THEN regions ELSE swap_remove(regions, position(square))

\* mutant: only the first committed region is searched
is_square_free_first(square) ==
    LET is_square_occupied ==
            Len(regions) > 0 /\ \E other \in regions[1].region : square = other
    IN  ~is_square_occupied

\* mutant: all where the code says any
is_square_free_all(square) ==
    LET is_square_occupied ==
            \A i \in 1..Len(regions) : \A other \in regions[i].region : square = other
    IN  ~is_square_occupied

is_square_free(square) ==
    LET is_square_occupied ==
            \E i \in 1..Len(regions) : \E other \in regions[i].region : square = other
    IN  ~is_square_occupied

\* ----------------------------------------------------------------- actions
NoRet == [op |-> "none", val |-> {}]
NoHandles == handles.fresh + handles.stale = 0
NoWalk == [pc |-> "idle", so_far |-> {}, remaining |-> {}, iterations |-> 0,
           result |-> TRUE]

\* App::new: the fields of the driver besides game and uncommitted
App_new ==
    /\ cursor = Square(0, 0)
    /\ colors = all_colors
    /\ running = TRUE

Init ==
    /\ \E contents \in BoardData :
           /\ Board_new_asserts(BoardWidth, contents)
           /\ board = Board_new(BoardWidth, contents)
    /\ regions = <<>>
    /\ candidate = {}
    /\ handles = [fresh |-> 0, stale |-> 0]
    /\ immediate = TRUE
    /\ ret = NoRet
    /\ App_new
    /\ walk = NoWalk

\* Region::new: the driver starts a new candidate
NewRegion ==
    /\ NoHandles
    /\ candidate' = {}
    /\ ret' = NoRet
    /\ UNCHANGED <<walk, app, board, regions, handles, immediate>>

\* Region::add_square, the bool dropped
AddSquare(square) ==
    /\ NoHandles
    /\ Cardinality(candidate \cup {square}) <= MaxSquares
    /\ candidate' = add_square(candidate, square)
    /\ ret' = NoRet
    /\ UNCHANGED <<walk, app, board, regions, handles, immediate>>

\* Region::remove_square, the bool dropped
RemoveSquare(square) ==
    /\ NoHandles
    /\ candidate' = remove_square(candidate, square)
    /\ ret' = NoRet
    /\ UNCHANGED <<walk, app, board, regions, handles, immediate>>

\* Game::check_region on the candidate; on Ok the caller keeps the handle or
\* drops it at once
CheckRegion ==
    \E result \in check_region(candidate), keep \in BOOLEAN :
        /\ ret' = [op |-> "check_region", val |-> result]
        /\ IF result = "Ok" /\ keep /\ handles.fresh + handles.stale < MaxHandles
           THEN handles' = [handles EXCEPT !.fresh = @ + 1]
           ELSE handles' = handles
        /\ UNCHANGED <<walk, app, board, regions, candidate, immediate>>

\* a CheckedRegion goes out of scope without being committed
DropHandle(kind) ==
    /\ handles[kind] > 0
    /\ handles' = [handles EXCEPT ![kind] = @ - 1]
    /\ ret' = NoRet
    /\ UNCHANGED <<walk, app, board, regions, candidate, immediate>>

\* Game::add_region consuming a handle: a fresh one (checked since the last
\* add_region) or a stale one (checked before it); every other handle alive
\* is stale afterwards
AddRegion(kind, data) ==
    /\ handles[kind] > 0
    /\ Len(regions) < MaxRegions
    /\ regions' = add_region(candidate, data)
    /\ handles' = [fresh |-> 0, stale |-> handles.fresh + handles.stale - 1]
    /\ immediate' = (immediate /\ kind = "fresh")
    /\ ret' = NoRet
    /\ UNCHANGED <<walk, app, board, candidate>>

\* Game::remove_region
RemoveRegion(square) ==
    /\ regions' = remove_region(square)
    /\ ret' = [op |-> "remove_region", val |-> remove_region_ret(square)]
    /\ UNCHANGED <<walk, app, board, candidate, handles, immediate>>

Next ==
    \/ NewRegion
    \/ \E square \in Squares : AddSquare(square)
    \/ \E square \in Squares : RemoveSquare(square)
    \/ CheckRegion
    \/ \E kind \in {"fresh", "stale"} : DropHandle(kind)
    \/ \E kind \in {"fresh", "stale"}, data \in Labels : AddRegion(kind, data)
    \/ \E square \in Squares : RemoveRegion(square)

Spec == Init /\ [][Next]_vars

\* ------------------------------------------------------------------ Region
\* a Region used on its own, as in tests::region_size: the bools kept
Region_new ==
    /\ candidate' = {}
    /\ ret' = NoRet
    /\ UNCHANGED <<walk, app, board, regions, handles, immediate>>

Region_add_square(square) ==
    /\ Cardinality(candidate \cup {square}) <= MaxSquares
    /\ candidate' = add_square(candidate, square)
    /\ ret' = [op |-> "add_square", val |-> add_square_ret(candidate, square)]
    /\ UNCHANGED <<walk, app, board, regions, handles, immediate>>

Region_remove_square(square) ==
    /\ candidate' = remove_square(candidate, square)
    /\ ret' = [op |-> "remove_square", val |-> remove_square_ret(candidate, square)]
    /\ UNCHANGED <<walk, app, board, regions, handles, immediate>>

NextRegion ==
    \/ Region_new
    \/ \E square \in Squares : Region_add_square(square)
    \/ \E square \in Squares : Region_remove_square(square)

SpecRegion == Init /\ [][NextRegion]_vars

\* ----------------------------------------------- Region::is_contiguous
\* Region::is_contiguous up to its loop: true at once for the empty region,
\* else so_far holds one square the HashSet yields and remaining the others
is_contiguous_call ==
    /\ walk.pc = "idle"
    /\ IF size(candidate) = 0
       THEN walk' = [NoWalk EXCEPT !.pc = "done", !.result = TRUE]
       ELSE \E start \in candidate :
                walk' = [NoWalk EXCEPT !.pc = "loop",
                                       !.so_far = {start},
                                       !.remaining = candidate \ {start}]
    /\ UNCHANGED <<app, board, regions, candidate, handles, immediate, ret>>

\* mutant: the square found is inserted into so_far and left in remaining
is_contiguous_loop_keep ==
    /\ walk.pc = "loop"
    /\ IF walk.remaining = {}
       THEN walk' = [walk EXCEPT !.pc = "done", !.result = TRUE]
       ELSE LET adjacent == {s1 \in walk.remaining :
                                \E s2 \in walk.so_far : is_neighbour_of(s1, s2)}
            IN  IF adjacent = {}
                THEN walk' = [walk EXCEPT !.pc = "done", !.result = FALSE,
                                          !.iterations = @ + 1]
                ELSE /\ walk.iterations < MaxSquares
                     /\ \E s \in adjacent :
                            walk' = [walk EXCEPT !.so_far = @ \cup {s},
                                                 !.iterations = @ + 1]
    /\ UNCHANGED <<app, board, regions, candidate, handles, immediate, ret>>

\* Region::is_contiguous, one test of the while condition and, when it
\* holds, one run of the loop body: a remaining square adjacent to so_far
\* moves to so_far (any one the HashSet may yield first), or false is returned
is_contiguous_loop ==
    /\ walk.pc = "loop"
    /\ IF walk.remaining = {}
       THEN walk' = [walk EXCEPT !.pc = "done", !.result = TRUE]
       ELSE LET adjacent == {s1 \in walk.remaining :
                                \E s2 \in walk.so_far : is_neighbour_of(s1, s2)}
            IN  IF adjacent = {}
                THEN walk' = [walk EXCEPT !.pc = "done", !.result = FALSE,
                                          !.iterations = @ + 1]
                ELSE \E s \in adjacent :
                         walk' = [walk EXCEPT !.so_far = @ \cup {s},
                                              !.remaining = @ \ {s},
                                              !.iterations = @ + 1]
    /\ UNCHANGED <<app, board, regions, candidate, handles, immediate, ret>>

\* Region::is_contiguous returns its result to the caller
is_contiguous_return ==
    /\ walk.pc = "done"
    /\ walk' = NoWalk
    /\ ret' = [op |-> "is_contiguous", val |-> walk.result]
    /\ UNCHANGED <<app, board, regions, candidate, handles, immediate>>

\* a Region is built, then is_contiguous runs on it; the call borrows the
\* Region, which cannot change before it returns
NextContiguous ==
    \/ walk.pc = "idle" /\ Region_new
    \/ walk.pc = "idle" /\ \E square \in Squares : Region_add_square(square)
    \/ walk.pc = "idle" /\ \E square \in Squares : Region_remove_square(square)
    \/ is_contiguous_call
    \/ is_contiguous_loop
    \/ is_contiguous_return

SpecContiguous == Init /\ [][NextContiguous]_vars

\* a call that has started keeps running: nothing but the loop itself can
\* hold it up
SpecContiguousFair == SpecContiguous /\ WF_vars(is_contiguous_loop)

\* --------------------------------------------------------------------- App
\* App.uncommitted: the Region the driver builds
uncommitted == candidate

\* GameWidget::render_board: the board.get of every cell of the board
render_board == {get(Square(x, y)) : x \in 0..(width - 1), y \in 0..(height - 1)}

\* GameWidget::render_status: the results check_region can give the status
\* line for the uncommitted region ("" when it is empty)
render_status ==
    IF size(uncommitted) = 0 THEN {""} ELSE check_region(uncommitted)

\* run: each turn of the loop draws the frame before it takes an event; a
\* panic in the frame ends the program
draw == "PANIC" \notin render_board /\ "Panic" \notin render_status

\* run: an event is taken while the driver runs and the frame was drawn
on_event == running /\ draw

\* App::on_event, 'q' or Esc
quit ==
    /\ on_event
    /\ running' = FALSE
    /\ ret' = NoRet
    /\ UNCHANGED <<walk, board, regions, candidate, handles, immediate, cursor, colors>>

\* mutant: the row above row 0 is entered
cursor_up_wrapping ==
    /\ on_event
    /\ cursor' = [cursor EXCEPT !.y = IF cursor.y > 0 THEN cursor.y - 1 ELSE height]
    /\ ret' = NoRet
    /\ UNCHANGED <<walk, board, regions, candidate, handles, immediate, colors, running>>

\* App::cursor_up
cursor_up ==
    /\ on_event
    /\ cursor' = IF cursor.y > 0 THEN [cursor EXCEPT !.y = cursor.y - 1] ELSE cursor
    /\ ret' = NoRet
    /\ UNCHANGED <<walk, board, regions, candidate, handles, immediate, colors, running>>

\* App::cursor_down
cursor_down ==
    /\ on_event
    /\ LET max_y == height - 1
       IN  cursor' = IF cursor.y < max_y THEN [cursor EXCEPT !.y = cursor.y + 1]
                     ELSE cursor
    /\ ret' = NoRet
    /\ UNCHANGED <<walk, board, regions, candidate, handles, immediate, colors, running>>

\* App::cursor_left
cursor_left ==
    /\ on_event
    /\ cursor' = IF cursor.x > 0 THEN [cursor EXCEPT !.x = cursor.x - 1] ELSE cursor
    /\ ret' = NoRet
    /\ UNCHANGED <<walk, board, regions, candidate, handles, immediate, colors, running>>

\* App::cursor_right
cursor_right ==
    /\ on_event
    /\ LET max_x == width - 1
       IN  cursor' = IF cursor.x < max_x THEN [cursor EXCEPT !.x = cursor.x + 1]
                     ELSE cursor
    /\ ret' = NoRet
    /\ UNCHANGED <<walk, board, regions, candidate, handles, immediate, colors, running>>

\* mutant: the square is added without asking whether it is free
select_occupied ==
    /\ on_event
    /\ candidate' = IF remove_square_ret(uncommitted, cursor)
                    THEN remove_square(uncommitted, cursor)
                    ELSE add_square(uncommitted, cursor)
    /\ ret' = [op |-> "is_square_free", val |-> is_square_free(cursor)]
    /\ UNCHANGED <<walk, board, regions, handles, immediate, app>>

\* App::select: the square under the cursor leaves the uncommitted region,
\* or joins it when no committed region holds it
select ==
    /\ on_event
    /\ IF remove_square_ret(uncommitted, cursor)
       THEN /\ candidate' = remove_square(uncommitted, cursor)
            /\ ret' = [op |-> "remove_square", val |-> TRUE]
       ELSE IF is_square_free(cursor)
       THEN /\ candidate' = add_square(uncommitted, cursor)
            /\ ret' = [op |-> "add_square",
                       val |-> add_square_ret(uncommitted, cursor)]
       ELSE /\ candidate' = uncommitted
            /\ ret' = [op |-> "is_square_free", val |-> FALSE]
    /\ UNCHANGED <<walk, board, regions, handles, immediate, app>>

\* App::add: colors.pop() and the refill from all_colors
pop(v) == [i \in 1..(Len(v) - 1) |-> v[i]]

\* mutant: the colors are not refilled when the last one is taken
add_no_refill ==
    /\ on_event
    /\ \E result \in check_region(uncommitted) :
           /\ result # "Panic"
           /\ ret' = [op |-> "check_region", val |-> result]
           /\ IF result = "Ok"
              THEN LET color == colors[Len(colors)]
                   IN  /\ colors' = pop(colors)
                       /\ regions' = add_region(uncommitted, color)
                       /\ candidate' = {}
              ELSE UNCHANGED <<regions, candidate, colors>>
    /\ UNCHANGED <<walk, board, handles, immediate, cursor, running>>

\* App::add: on Ok the uncommitted region is committed with the next color
\* and a new uncommitted region is started
add ==
    /\ on_event
    /\ \E result \in check_region(uncommitted) :
           /\ result # "Panic"
           /\ ret' = [op |-> "check_region", val |-> result]
           /\ IF result = "Ok"
              THEN LET color == colors[Len(colors)]
                   IN  /\ colors' = IF pop(colors) = <<>> THEN all_colors
                                    ELSE pop(colors)
                       /\ regions' = add_region(uncommitted, color)
                       /\ candidate' = {}
              ELSE UNCHANGED <<regions, candidate, colors>>
    /\ UNCHANGED <<walk, board, handles, immediate, cursor, running>>

\* App::remove: the committed region under the cursor is removed; with none
\* there, a new uncommitted region is started
remove ==
    /\ on_event
    /\ regions' = remove_region(cursor)
    /\ ret' = [op |-> "remove_region", val |-> remove_region_ret(cursor)]
    /\ candidate' = IF remove_region_ret(cursor) = {} THEN {} ELSE uncommitted
    /\ UNCHANGED <<walk, board, handles, immediate, app>>

\* App::remove_and_add: the committed region under the cursor is removed and
\* its squares join the uncommitted region
remove_and_add ==
    /\ on_event
    /\ regions' = remove_region(cursor)
    /\ ret' = [op |-> "remove_region", val |-> remove_region_ret(cursor)]
    /\ candidate' = uncommitted \cup UNION {e.region : e \in remove_region_ret(cursor)}
    /\ UNCHANGED <<walk, board, handles, immediate, app>>

\* App::on_event, any other event
other_event ==
    /\ on_event
    /\ UNCHANGED vars

NextApp ==
    \/ quit
    \/ cursor_up
    \/ cursor_down
    \/ cursor_left
    \/ cursor_right
    \/ select
    \/ add
    \/ remove
    \/ remove_and_add
    \/ other_event

SpecApp == Init /\ [][NextApp]_vars

\* ---------------------------------------------------------------- notions
\* the notions the claims are stated in, defined without the code's operators
BoardCells == {s \in Squares : s.x < width /\ s.y < height}

Entries == 1..Len(regions)

CommittedSquares == {s \in Squares : \E i \in Entries : s \in regions[i].region}

NoOverlap ==
    \A i, j \in Entries : i # j => regions[i].region \cap regions[j].region = {}

Adjacent(a, b) ==
    \/ a.x = b.x /\ (a.y = b.y + 1 \/ b.y = a.y + 1)
    \/ a.y = b.y /\ (a.x = b.x + 1 \/ b.x = a.x + 1)

\* connected: no cut of the region into two parts without an edge across
Connected(region) ==
    \A part \in SUBSET region :
        (part # {} /\ part # region) =>
            \E a \in part, b \in region \ part : Adjacent(a, b)

\* the word of an in-board region: the k-th letter is the letter of the
\* square with k-1 squares before it in reading order
Rank(region, s) ==
    Cardinality({t \in region : t.y < s.y \/ (t.y = s.y /\ t.x < s.x)}) + 1

\* the character of a board cell; "?" where the board holds none
Letter(s) ==
    IF s.y * width + s.x + 1 \in DOMAIN board.board
    THEN board.board[s.y * width + s.x + 1] ELSE "?"

Spelled(region) ==
    [k \in 1..Cardinality(region) |->
        Letter(CHOOSE t \in region : Rank(region, t) = k)]

Validated(region) ==
    /\ min_length <= Cardinality(region)
    /\ Cardinality(region) <= max_length
    /\ region \subseteq BoardCells
    /\ Connected(region)
    /\ Spelled(region) \in dictionary

\* the first of the six checks that fails, in the documented order
ExpectedResult(region) ==
    IF Cardinality(region) < min_length THEN "TooShort"
    ELSE IF Cardinality(region) > max_length THEN "TooLong"
    ELSE IF ~(region \subseteq BoardCells) THEN "OutOfBounds"
    ELSE IF region \cap CommittedSquares # {} THEN "Overlapping"
    ELSE IF ~Connected(region) THEN "NotContiguous"
    ELSE IF Spelled(region) \notin dictionary THEN "NotInDictionary"
    ELSE "Ok"

Count(seq, e) == Cardinality({k \in 1..Len(seq) : seq[k] = e})

\* ------------------------------------------------------------------ claims

\* C1 (as stated): after any sequence of check_region, add_region (each
\* consuming a handle of a successful check_region) and remove_region, no two
\* distinct committed entries share a coordinate.
C1_NoOverlapAnySequence == NoOverlap

\* C1 (amended): when every add_region consumed a handle obtained from a
\* check_region made after the previous add_region, no two distinct committed
\* entries share a coordinate.
C1_NoOverlapImmediateCommit == immediate => NoOverlap

C1_Witness == immediate /\ Len(regions) = 2 /\ handles.stale > 0

\* C2: for every candidate and every game state check_region returns the tag
\* of the first failing check in the order TooShort, TooLong, OutOfBounds,
\* Overlapping, NotContiguous, NotInDictionary, and Ok exactly when none of
\* the six fails.
C2_FixedCheckOrder ==
    /\ check_region(candidate) = {ExpectedResult(candidate)}
    /\ ret.op = "check_region" => ret.val = ExpectedResult(candidate)

\* C3 (as stated): while R is committed, check_region on a candidate sharing a
\* coordinate with R returns Overlapping, and is_square_free is false on every
\* coordinate of R.
C3_SharedMeansOverlapping ==
    \A i \in Entries :
        /\ candidate \cap regions[i].region # {} =>
               check_region(candidate) = {"Overlapping"}
        /\ \A square \in regions[i].region : ~is_square_free(square)

\* C3 (amended): while R is committed, check_region on a candidate sharing a
\* coordinate with R fails: with TooShort, TooLong or OutOfBounds when that
\* earlier check fails, and with Overlapping otherwise; is_square_free is
\* false on every coordinate of R.
C3_SharedNeverOk ==
    \A i \in Entries :
        /\ candidate \cap regions[i].region # {} =>
               /\ check_region(candidate) =
                      { IF Cardinality(candidate) < min_length THEN "TooShort"
                        ELSE IF Cardinality(candidate) > max_length THEN "TooLong"
                        ELSE IF ~(candidate \subseteq BoardCells) THEN "OutOfBounds"
                        ELSE "Overlapping" }
               /\ ret.op = "check_region" => ret.val # "Ok"
        /\ \A square \in regions[i].region : ~is_square_free(square)

C3_Witness ==
    /\ ret = [op |-> "check_region", val |-> "Overlapping"]
    /\ Len(regions) = 2
    /\ candidate \cap regions[2].region # {}
    /\ candidate \cap regions[1].region = {}

\* exactly one committed region contains each board cell, and none contains a
\* coordinate outside the board
Partition ==
    /\ \A s \in BoardCells :
           Cardinality({i \in Entries : s \in regions[i].region}) = 1
    /\ \A i \in Entries : regions[i].region \subseteq BoardCells

\* C4 (as stated): in every reachable state in which is_complete() is true the
\* committed regions partition the board.
C4_CompleteIsPartition == is_complete => Partition

\* C4 (amended): in every reachable state in which is_complete() is true and
\* every add_region consumed a handle obtained after the previous add_region,
\* the committed regions partition the board.
C4_CompleteIsPartitionImmediateCommit == (immediate /\ is_complete) => Partition

C4_Witness == immediate /\ is_complete /\ Len(regions) = 2

\* C5: is_complete() is true iff the union of the committed regions'
\* coordinates equals the set of board coordinates.
C5_CompleteIffCovered ==
    is_complete <=>
        UNION {regions[i].region : i \in Entries} = BoardCells

C5_Witness == is_complete /\ Len(regions) >= 2

\* C6: under validate-then-immediately-commit every committed region has
\* min_length <= size <= max_length, lies within the board, is contiguous and
\* spells a dictionary word.
C6_CommittedAreValidated ==
    immediate => \A i \in Entries : Validated(regions[i].region)

C6_Witness ==
    /\ immediate
    /\ Len(regions) = 2
    /\ regions[1].region # regions[2].region

\* no committed region contains the square
is_absent(square) == \A i \in Entries : square \notin regions[i].region

\* C7: remove_region on a coordinate no committed region contains returns
\* None and leaves the committed list as it was.
C7_RemoveAbsentIsNoOp ==
    [][ret'.op = "remove_region" =>
           \A square \in Squares :
               (is_absent(square) /\ RemoveRegion(square)) =>
                   (ret'.val = {} /\ regions' = regions)]_vars

C7_Witness ==
    /\ ret = [op |-> "remove_region", val |-> {}]
    /\ Len(regions) >= 1

\* what C8 says of a remove_region(square) step besides the freed square:
\* one entry containing the square is returned with its label and taken out,
\* every other entry stays
RemovedOne(square) ==
    \E i \in Entries :
        /\ square \in regions[i].region
        /\ ret'.val = {regions[i]}
        /\ Len(regions') = Len(regions) - 1
        /\ \A k \in Entries :
               Count(regions', regions[k]) =
                   Count(regions, regions[k]) - (IF regions[k] = regions[i] THEN 1 ELSE 0)

\* C8 (as stated): remove_region on a coordinate of a committed region returns
\* and removes exactly one entry containing it, keeps every other entry, and
\* afterwards is_square_free(coord) is true.
C8_RemoveFreesSquare ==
    [][ret'.op = "remove_region" =>
           \A square \in Squares :
               (~is_absent(square) /\ RemoveRegion(square)) =>
                   (RemovedOne(square) /\ is_square_free(square)')]_vars

\* C8 (amended): remove_region on a coordinate of a committed region returns
\* and removes exactly one entry containing it and keeps every other entry;
\* afterwards is_square_free(coord) is true if the committed regions were
\* pairwise disjoint.
C8_RemoveFreesSquareIfDisjoint ==
    [][ret'.op = "remove_region" =>
           \A square \in Squares :
               (~is_absent(square) /\ RemoveRegion(square)) =>
                   (RemovedOne(square) /\ (NoOverlap => is_square_free(square)'))]_vars

C8_Witness ==
    /\ ret.op = "remove_region"
    /\ ret.val # {}
    /\ Len(regions) >= 1
    /\ \A e \in ret.val : \A square \in e.region : is_square_free(square)

\* C9: add_region appends one entry holding the candidate's coordinates and
\* the label supplied and leaves the earlier entries as they were; a later
\* change of the candidate changes no committed region.
C9_AddAppendsCopy ==
    [][/\ \A kind \in {"fresh", "stale"}, data \in Labels :
              AddRegion(kind, data) =>
                  /\ Len(regions') = Len(regions) + 1
                  /\ regions'[Len(regions')] = [region |-> candidate, data |-> data]
                  /\ \A i \in Entries : regions'[i] = regions[i]
       /\ candidate' # candidate => regions' = regions]_vars

\* two entries with different labels are committed and the candidate has
\* since been changed to a region that is not committed
C9_Witness ==
    /\ Len(regions) = 2
    /\ regions[1].data # regions[2].data
    /\ candidate # {}
    /\ \A i \in Entries : regions[i].region # candidate

\* C10: for every candidate and every game state check_region returns Ok or
\* one of its six error tags, one result per call, and never indexes the
\* board out of range.
C10_OnlySixErrors ==
    /\ check_region(candidate) \subseteq
           {"Ok", "TooShort", "TooLong", "OutOfBounds", "Overlapping",
            "NotContiguous", "NotInDictionary"}
    /\ Cardinality(check_region(candidate)) = 1
    /\ ret.op = "check_region" => ret.val # "Panic"

\* C11: is_contiguous returns true exactly when the region is empty or
\* connected under 4-neighbour adjacency, whatever square the walk starts
\* from and whichever adjacent square it takes next; {(0,0),(1,1)} and
\* {(0,0),(0,1),(2,2)} are not contiguous, {(0,0),(0,1),(1,1)} is.
C11_ContiguousIffConnected ==
    /\ is_contiguous(candidate) = {candidate = {} \/ Connected(candidate)}
    /\ is_contiguous({Square(0, 0), Square(1, 1)}) = {FALSE}
    /\ is_contiguous({Square(0, 0), Square(0, 1), Square(2, 2)}) = {FALSE}
    /\ is_contiguous({Square(0, 0), Square(0, 1), Square(1, 1)}) = {TRUE}

C11_Witness ==
    /\ candidate = {Square(0, 0), Square(1, 1)}
    /\ ret.op = "check_region"
    /\ ret.val = "NotContiguous"

\* C12 (as stated): the word of an in-bounds region is the board's characters
\* at its squares in reading order (rows top to bottom, columns left to
\* right); its length is the region's size and the empty region spells "".
C12_WordIsReadingOrder ==
    is_in_bounds(candidate) =>
        /\ word(candidate) = Spelled(candidate)
        /\ Len(word(candidate)) = size(candidate)
        /\ word({}) = <<>>

\* C13 (as stated): Board::get fails for every square outside the board,
\* squares with x >= width in a valid row included, and inside the board it
\* returns the character at index y * width + x.
C13_GetFailsOutside ==
    \A s \in Squares :
        IF s \in BoardCells
        THEN /\ s.y * width + s.x + 1 \in DOMAIN board.board
             /\ get(s) = board.board[s.y * width + s.x + 1]
        ELSE get(s) = "PANIC"

\* C14: on a Region of its own, add_square returns true and the size grows by one exactly when the
\* square was absent, and returns false leaving the region as it was when the
\* square was present; remove_square returns true and the size shrinks by one
\* exactly when the square was present, and returns false leaving the region as
\* it was when the square was absent.
C14_SquareOpsAreSetOps ==
    [][/\ ret'.op = "add_square" =>
              \A c \in Squares :
                  Region_add_square(c) =>
                      /\ ret'.val = (c \notin candidate)
                      /\ c \in candidate'
                      /\ ret'.val => size(candidate') = size(candidate) + 1
                      /\ ~ret'.val => candidate' = candidate
       /\ ret'.op = "remove_square" =>
              \A c \in Squares :
                  Region_remove_square(c) =>
                      /\ ret'.val = (c \in candidate)
                      /\ c \notin candidate'
                      /\ ret'.val => size(candidate') = size(candidate) - 1
                      /\ ~ret'.val => candidate' = candidate]_vars

C14_Witness ==
    /\ ret.op = "add_square"
    /\ ret.val = FALSE
    /\ size(candidate) = 2

\* C15: is_square_free(square) is true exactly when no committed region
\* contains the square; after committing {(0,0),(1,0)} alone, (0,0) is not
\* free and the game is not complete.
C15_FreeIffUncommitted ==
    /\ \A square \in Squares :
           is_square_free(square) <=> square \notin CommittedSquares
    /\ (Len(regions) = 1 /\ regions[1].region = {Square(0, 0), Square(1, 0)}) =>
           (~is_square_free(Square(0, 0)) /\ ~is_complete)

C15_Witness ==
    /\ Len(regions) = 1
    /\ regions[1].region = {Square(0, 0), Square(1, 0)}
    /\ ~is_square_free(Square(0, 0))
    /\ is_square_free(Square(1, 1))
    /\ ~is_complete

Dist(m, n) == IF m > n THEN m - n ELSE n - m

\* C16: is_neighbour_of(a, b) is true exactly when a and b agree on one axis
\* and differ by 1 on the other (one unit step apart); it is false for a
\* square and itself, for diagonal squares and for larger offsets, and it is
\* symmetric.
C16_NeighbourIsUnitStep ==
    \A a \in candidate, b \in Squares :
        /\ is_neighbour_of(a, b) <=>
               /\ (a.x = b.x) # (a.y = b.y)
               /\ Dist(a.x, b.x) + Dist(a.y, b.y) = 1
        /\ is_neighbour_of(a, b) <=> is_neighbour_of(b, a)
        /\ ~is_neighbour_of(a, a)
        /\ (a.x # b.x /\ a.y # b.y) => ~is_neighbour_of(a, b)
        /\ (Dist(a.x, b.x) > 1 \/ Dist(a.y, b.y) > 1) => ~is_neighbour_of(a, b)

C16_Witness ==
    /\ candidate = {Square(1, 0), Square(0, 1)}
    /\ ret.op = "check_region"
    /\ ret.val = "NotContiguous"

\* C17: is_in_bounds is true exactly when every square of the region has
\* x < width and y < height; the empty region is in bounds, and one square
\* outside among squares inside puts the region out of bounds (on the 2x2
\* board {(1,1)} is in bounds, {(2,1)}, {(1,2)} and {(0,0),(1,1),(2,2)} are
\* not).
C17_InBoundsIffAllInside ==
    /\ is_in_bounds(candidate) <=>
           \A s \in candidate : s.x < width /\ s.y < height
    /\ is_in_bounds({})
    /\ is_in_bounds({Square(1, 1)})
    /\ ~is_in_bounds({Square(2, 1)})
    /\ ~is_in_bounds({Square(1, 2)})
    /\ ~is_in_bounds({Square(0, 0), Square(1, 1), Square(2, 2)})

C17_Witness ==
    /\ candidate = {Square(0, 0), Square(1, 2)}
    /\ ret.op = "check_region"
    /\ ret.val = "OutOfBounds"

RegionSets(seq) == {seq[i].region : i \in 1..Len(seq)}

\* C18: when every commit so far followed its check at once, the region
\* remove_region returns passes check_region in the game as the removal left
\* it, and committing it again restores the set of committed regions.
C18_RemoveThenRevalidate ==
    [][(ret'.op = "remove_region" /\ immediate) =>
           \A e \in ret'.val :
               /\ check_region(e.region)' = {"Ok"}
               /\ RegionSets(add_region(e.region, e.data))' = RegionSets(regions)]_vars

C18_Witness ==
    /\ ret.op = "remove_region"
    /\ ret.val # {}
    /\ immediate
    /\ Len(regions) = 1
    /\ \A e \in ret.val : check_region(e.region) = {"Ok"}

\* C19: in the driver, after any sequence of key events the uncommitted
\* region holds only squares of the board and shares no square with a
\* committed region, so neither App::add's check_region nor the status line's
\* returns Overlapping or OutOfBounds.
C19_UncommittedIsFreeAndInBounds ==
    /\ uncommitted \subseteq BoardCells
    /\ uncommitted \cap CommittedSquares = {}
    /\ render_status \cap {"Overlapping", "OutOfBounds"} = {}
    /\ ret.op = "check_region" => ret.val \notin {"Overlapping", "OutOfBounds"}

C19_Witness ==
    /\ ret.op = "is_square_free"
    /\ ret.val = FALSE
    /\ cursor \in CommittedSquares
    /\ uncommitted # {}

\* C20: in the driver the cursor starts at (0,0) and stays on the board; a
\* move off the board leaves it where it is, a move on the board takes one
\* step, and no other event moves it.
C20_CursorStaysOnBoard ==
    /\ cursor = Square(0, 0)
    /\ [][/\ cursor'.x < width /\ cursor'.y < height
          /\ cursor_up =>
                 cursor' = IF cursor.y = 0 THEN cursor
                           ELSE Square(cursor.x, cursor.y - 1)
          /\ cursor_down =>
                 cursor' = IF cursor.y + 1 = height THEN cursor
                           ELSE Square(cursor.x, cursor.y + 1)
          /\ cursor_left =>
                 cursor' = IF cursor.x = 0 THEN cursor
                           ELSE Square(cursor.x - 1, cursor.y)
          /\ cursor_right =>
                 cursor' = IF cursor.x + 1 = width THEN cursor
                           ELSE Square(cursor.x + 1, cursor.y)
          /\ (quit \/ select \/ add \/ remove \/ remove_and_add \/ other_event) =>
                 cursor' = cursor]_vars

C20_Witness ==
    /\ cursor = Square(width - 1, height - 1)
    /\ regions # <<>>
    /\ running

RECURSIVE SumOfSizes(_)
SumOfSizes(seq) ==
    IF seq = <<>> THEN 0 ELSE Cardinality(Head(seq).region) + SumOfSizes(Tail(seq))

\* C21: with min_length >= 1 and every commit following its check at once,
\* every committed region is non-empty and remove_region on any of its
\* squares removes it; the sizes of the committed regions add up to at most
\* width * height, and so does their number.
C21_CommittedFitTheBoard ==
    (min_length >= 1 /\ immediate) =>
        /\ \A i \in Entries :
               /\ regions[i].region # {}
               /\ \A square \in regions[i].region :
                      remove_region_ret(square) = {regions[i]}
        /\ SumOfSizes(regions) <= width * height
        /\ Len(regions) <= width * height

C21_Witness ==
    /\ immediate
    /\ Len(regions) = 2
    /\ SumOfSizes(regions) = width * height
    /\ \A i \in Entries : \A square \in regions[i].region :
           remove_region_ret(square) = {regions[i]}

\* C22: is_contiguous terminates: while its loop runs, so_far and remaining
\* are disjoint and together are the region; each run of the loop body moves
\* exactly one square from remaining to so_far or returns false; no more
\* than size - 1 bodies run, and the loop, once entered, returns.
C22_ContiguousLoopTerminates ==
    /\ (walk.pc = "loop") ~> (walk.pc = "done")
    /\ [][walk'.pc # "idle" =>
           /\ candidate' = candidate
           /\ walk'.so_far \cap walk'.remaining = {}
           /\ walk'.so_far \cup walk'.remaining = candidate'
           /\ size(candidate') > 0 => walk'.iterations <= size(candidate') - 1
           /\ (walk.pc = "loop" /\ walk.remaining # {}) =>
                  /\ walk'.iterations = walk.iterations + 1
                  /\ \/ walk'.pc = "done" /\ walk'.result = FALSE
                     \/ /\ walk'.pc = "loop"
                        /\ \E s \in walk.remaining :
                               /\ walk'.remaining = walk.remaining \ {s}
                               /\ walk'.so_far = walk.so_far \cup {s}
           /\ (walk.pc = "loop" /\ walk.remaining = {}) =>
                  (walk'.pc = "done" /\ walk'.result = TRUE)]_vars

C22_Witness ==
    /\ walk.pc = "done"
    /\ walk.result = FALSE
    /\ size(candidate) = 3
    /\ walk.iterations = size(candidate) - 1

\* C23: in the driver the colors not handed out yet are never empty between
\* events: App::add takes the last one for each region it commits and refills
\* them from all_colors when none is left, so its pop always finds a color.
C23_ColorsNeverEmpty ==
    /\ colors # <<>>
    /\ Len(colors) <= Len(all_colors)
    /\ \A i \in 1..Len(colors) : colors[i] = all_colors[i]

C23_Witness ==
    /\ colors = all_colors
    /\ regions # <<>>
    /\ regions[Len(regions)].data = all_colors[1]

====
